---- MODULE Spec2Model ----
(***************************************************************************)
(* Model of the smart-config schema engine (crates/smart-config/src/       *)
(* schema/mod.rs): the config registry, the mounting-point index and the   *)
(* patch/commit insertion of configs and aliases.                          *)
(*                                                                         *)
(* Conventions.  An Option<T> is a sequence of length at most one: <<>> is *)
(* None and <<v>> is Some(v).  An absolute path ("a.b") is the sequence of *)
(* its segments (<<"a", "b">>); the empty path "" is <<>>.  A local name   *)
(* or alias of a parameter / nested config is a record [dots, segs]: the   *)
(* number of leading '.' characters and the segments after them.  A map    *)
(* (HashMap / BTreeMap) is a function with a finite domain.                *)
(***************************************************************************)
EXTENDS Integers, Sequences, FiniteSets, TLC

VARIABLES schema, last, track, menu, errs, fb

vars == <<schema, last, track, menu, errs, fb>>

----------------------------------------------------------------------------
(* Generic helpers *)

EmptyMap == [k \in {} |-> {}]

MapPut(f, k, v) == [x \in (DOMAIN f) \cup {k} |-> IF x = k THEN v ELSE f[x]]

\* `HashMap::extend` / `BTreeMap::extend`: entries of g replace those of f.
MapExtend(f, g) ==
    [x \in (DOMAIN f) \cup (DOMAIN g) |-> IF x \in DOMAIN g THEN g[x] ELSE f[x]]

MapGet(f, k) == IF k \in DOMAIN f THEN <<f[k]>> ELSE <<>>

RECURSIVE Concat(_)
Concat(ss) == IF ss = <<>> THEN <<>> ELSE Head(ss) \o Concat(Tail(ss))

Range(s) == {s[i] : i \in 1..Len(s)}

IsPrefixOf(s, t) == Len(s) <= Len(t) /\ SubSeq(t, 1, Len(s)) = s

----------------------------------------------------------------------------
(* Metadata (external, immutable): names, aliases, type sets, variants *)

Name(s) == [dots |-> 0, segs |-> <<s>>]

\* The empty name of a flattened nested config.
Flattened == [dots |-> 0, segs |-> <<>>]

\* A declared name as a local name: "" has no segments.
NameOf(s) == IF s = "" THEN Flattened ELSE Name(s)

\* A relative path alias such as ".rel" (dots = 1) or "..rel" (dots = 2).
RelPath(dots, segs) == [dots |-> dots, segs |-> segs]

LocalAlias(name, dep) == [name |-> name, is_deprecated |-> dep]

NoVariant == <<>>

Variant(name, aliases) == <<[name |-> name, aliases |-> aliases]>>

\* A fallback source: fallback::Env(var).
Env(var) == [kind |-> "Env", var |-> var]

Param(name, aliases, expecting, tag) ==
    [name |-> name, aliases |-> aliases, expecting |-> expecting, tag_variant |-> tag,
     rust_field_name |-> name, fallback |-> <<>>]

\* A parameter declared for the struct field `field` with a fallback source.
WithFallback(param, field, source) ==
    [param EXCEPT !.rust_field_name = field, !.fallback = <<source>>]

Nested(name, aliases, meta, tag) ==
    [name |-> name, aliases |-> aliases, meta |-> meta, tag_variant |-> tag]

ConfigMeta(params, nested) == [params |-> params, nested_configs |-> nested]

\* The config types of the model, keyed by type id.
Meta ==
    [ Leaf |-> ConfigMeta(<<Param("x", <<>>, {"Int"}, NoVariant)>>, <<>>),
      Ali  |-> ConfigMeta(<<Param("e", <<LocalAlias(Name("x"), FALSE)>>, {"Int"}, NoVariant)>>,
                          <<>>),
      Ov   |-> ConfigMeta(<<Param("x", <<>>, {"Int", "Str"}, NoVariant)>>, <<>>),
      Dis  |-> ConfigMeta(<<Param("x", <<>>, {"Str"}, NoVariant)>>, <<>>),
      Par  |-> ConfigMeta(<<Param("k", <<LocalAlias(RelPath(2, <<"up">>), TRUE)>>, {"Int"},
                                  NoVariant)>>,
                          <<Nested("d", <<LocalAlias(Name("e"), TRUE)>>, "Leaf", NoVariant)>>),
      Bad  |-> ConfigMeta(<<Param("n", <<>>, {"Int"}, NoVariant)>>,
                          <<Nested("m", <<LocalAlias(Name("n"), FALSE)>>, "Leaf", NoVariant),
                            Nested("d", <<>>, "Leaf", NoVariant)>>),
      Enum |-> ConfigMeta(<<Param("baz", <<LocalAlias(Name("qux"), FALSE)>>, {"Str"},
                                  Variant("Foo", <<"Bar">>)),
                            Param("opt", <<LocalAlias(RelPath(1, <<"rel">>), FALSE)>>, {"Int"},
                                  Variant("Foo", <<"9x">>)),
                            Param("raw", <<>>, {"Int"}, NoVariant)>>,
                          <<>>),
      ParE |-> ConfigMeta(<<>>,
                          <<Nested("d", <<>>, "Enum", NoVariant)>>),
      Bz   |-> ConfigMeta(<<Param("baz", <<>>, {"Int"}, NoVariant)>>, <<>>),
      Mid  |-> ConfigMeta(<<>>,
                          <<Nested("", <<>>, "Leaf", NoVariant)>>),
      Dia  |-> ConfigMeta(<<>>,
                          <<Nested("", <<>>, "Mid", NoVariant),
                            Nested("", <<>>, "Leaf", NoVariant)>>),
      FbA  |-> ConfigMeta(<<WithFallback(Param("x", <<LocalAlias(Name("z"), FALSE)>>, {"Str"},
                                               NoVariant),
                                         "x_field", Env("V1")),
                            Param("y", <<>>, {"Int"}, NoVariant)>>,
                          <<>>),
      FbB  |-> ConfigMeta(<<WithFallback(Param("x", <<>>, {"Str"}, NoVariant),
                                         "x", Env("V2"))>>,
                          <<>>),
      ServerConfig |-> ConfigMeta(<<Param("port", <<>>, {"Int"}, NoVariant)>>, <<>>) ]

Types == DOMAIN Meta

\* AliasOptions::new() / AliasOptions::default(): not deprecated.
AliasOptionsNew == FALSE

\* AliasOptions::combine: deprecated if either side is.
Combine(a, b) == a \/ b

\* EnumVariant::new(name)?.to_snake_case(): the snake-cased variant name, or
\* None for a name that is not a valid variant identifier.
ToSnakeCase(name) ==
    CASE name = "Foo" -> <<"foo">>
      [] name = "Bar" -> <<"bar">>
      [] OTHER -> <<>>

----------------------------------------------------------------------------
(* value::Pointer *)

\* Pointer::join for a suffix without leading dots, given by its segments.
Join(path, segs) == path \o segs

\* Pointer::join_path: every leading dot after the first one strips one
\* trailing segment of `path`; None if `path` has too few segments.
JoinPath(path, local) ==
    LET up == IF local.dots > 0 THEN local.dots - 1 ELSE 0
    IN IF Len(path) < up THEN <<>>
       ELSE <<Join(SubSeq(path, 1, Len(path) - up), local.segs)>>

\* Pointer::split_last
SplitLast(path) ==
    IF path = <<>> THEN <<>> ELSE <<SubSeq(path, 1, Len(path) - 1)>>

----------------------------------------------------------------------------
(* ConfigData *)

PathEntry(path, dep) == [path |-> path, is_deprecated |-> dep]

NoLink == <<>>

ParentLink(parent_ty, this_ref) == <<[parent_ty |-> parent_ty, this_ref |-> this_ref]>>

ConfigData(ty, link, top, coerce, all_paths) ==
    [metadata |-> ty, parent_link |-> link, is_top_level |-> top,
     coerce_serde_enums |-> coerce, all_paths |-> all_paths]

\* ConfigData::prefix
Prefix(data) == data.all_paths[1].path

\* ConfigData::aliases
Aliases(data) == SubSeq(data.all_paths, 2, Len(data.all_paths))

\* Mutant of EnumNames: path aliases get a tag-prefixed variant too.
EnumNamesOfAllAliases(local_names, variant) ==
    LET raw == <<variant.name>> \o variant.aliases
        variant_names == Concat([i \in 1..Len(raw) |-> ToSnakeCase(raw[i])])
    IN Concat([v \in 1..Len(variant_names) |->
          [i \in 1..Len(local_names) |->
              LocalAlias([dots |-> 0,
                          segs |-> Join(<<variant_names[v]>>, local_names[i].name.segs)],
                         local_names[i].is_deprecated)]])

\* The tag-prefixed local names produced when coercion applies.
EnumNames(local_names, variant) ==
    LET raw == <<variant.name>> \o variant.aliases
        variant_names == Concat([i \in 1..Len(raw) |-> ToSnakeCase(raw[i])])
    IN Concat([v \in 1..Len(variant_names) |->
          Concat([i \in 1..Len(local_names) |->
              IF local_names[i].name.dots > 0
              THEN <<>>
              ELSE <<LocalAlias([dots |-> 0,
                                 segs |-> Join(<<variant_names[v]>>, local_names[i].name.segs)],
                                local_names[i].is_deprecated)>>])])

\* Mutant of AllPathsForChild: the local names are the outer key and the paths
\* of the config the inner key.
AllPathsForChildNamesOuter(data, name, aliases, tag_variant) ==
    LET local_names == <<LocalAlias(NameOf(name), AliasOptionsNew)>> \o aliases
        enum_names == IF data.coerce_serde_enums /\ tag_variant # NoVariant
                      THEN EnumNames(local_names, tag_variant[1])
                      ELSE <<>>
        all_names == local_names \o enum_names
    IN Concat([i \in 1..Len(all_names) |->
          Concat([p \in 1..Len(data.all_paths) |->
              LET full == JoinPath(data.all_paths[p].path, all_names[i].name)
              IN IF full = <<>> THEN <<>>
                 ELSE <<PathEntry(full[1],
                                  Combine(all_names[i].is_deprecated,
                                          data.all_paths[p].is_deprecated))>>])])

\* ConfigData::all_paths_for_child
AllPathsForChild(data, name, aliases, tag_variant) ==
    LET local_names == <<LocalAlias(NameOf(name), AliasOptionsNew)>> \o aliases
        enum_names == IF data.coerce_serde_enums /\ tag_variant # NoVariant
                      THEN EnumNames(local_names, tag_variant[1])
                      ELSE <<>>
        all_names == local_names \o enum_names
    IN Concat([p \in 1..Len(data.all_paths) |->
          Concat([i \in 1..Len(all_names) |->
              LET full == JoinPath(data.all_paths[p].path, all_names[i].name)
              IN IF full = <<>> THEN <<>>
                 ELSE <<PathEntry(full[1],
                                  Combine(all_names[i].is_deprecated,
                                          data.all_paths[p].is_deprecated))>>])])

\* ConfigData::all_paths_for_param
AllPathsForParam(data, param) ==
    AllPathsForChild(data, param.name, param.aliases, param.tag_variant)

----------------------------------------------------------------------------
(* MountingPoint / MountingPoints *)

MountConfig == [kind |-> "Config", expecting |-> {}, is_canonical |-> FALSE]

MountParam(expecting, is_canonical) ==
    [kind |-> "Param", expecting |-> expecting, is_canonical |-> is_canonical]

----------------------------------------------------------------------------
(* ConfigsForPrefix and ConfigSchema *)

ConfigsForPrefixDefault == [inner |-> EmptyMap, by_depth |-> {}]

\* ConfigsForPrefix::insert
ConfigsForPrefixInsert(cfp, ty, depth, data) ==
    [inner |-> MapPut(cfp.inner, ty, data),
     by_depth |-> IF depth # <<>> THEN cfp.by_depth \cup {<<depth[1], ty>>}
                  ELSE cfp.by_depth]

\* ConfigsForPrefix::extend
ConfigsForPrefixExtend(cfp, other) ==
    [inner |-> MapExtend(cfp.inner, other.inner),
     by_depth |-> cfp.by_depth \cup other.by_depth]

\* ConfigSchema::default
SchemaDefault ==
    [configs |-> EmptyMap, mounting_points |-> EmptyMap, coerce_serde_enums |-> FALSE]

\* ConfigSchema::get_ll
GetLL(s, prefix, ty) ==
    IF prefix \in DOMAIN s.configs
    THEN MapGet(s.configs[prefix].inner, ty)
    ELSE <<>>

\* ConfigSchema::iter_ll, as the set of registered (prefix, type) keys.
Registered(s) ==
    {<<prefix, ty>> : prefix \in DOMAIN s.configs, ty \in Types} \cap
    {k \in (DOMAIN s.configs) \X Types : k[2] \in DOMAIN s.configs[k[1]].inner}

Entry(s, key) == s.configs[key[1]].inner[key[2]]

\* The number of configs staged in a patch.
Staged(patch) == Cardinality(Registered(patch))

\* ConfigSchema::contains_canonical_param
ContainsCanonicalParam(s, at) ==
    /\ at \in DOMAIN s.mounting_points
    /\ s.mounting_points[at].kind = "Param"
    /\ s.mounting_points[at].is_canonical

----------------------------------------------------------------------------
(* PatchedSchema *)

NoErr == [kind |-> "None", path |-> <<>>, prev |-> {}, new |-> {}]

Err(kind, path, prev, new) == [kind |-> kind, path |-> path, prev |-> prev, new |-> new]

Ok(patch) == [ok |-> TRUE, patch |-> patch, err |-> NoErr]

Bail(patch, err) == [ok |-> FALSE, patch |-> patch, err |-> err]

\* Mutant of Mount: only the base is consulted.
MountBaseOnly(base, patch, path) == MapGet(base.mounting_points, path)

\* PatchedSchema::mount: the patch first, then the base.
Mount(base, patch, path) ==
    IF path \in DOMAIN patch.mounting_points
    THEN <<patch.mounting_points[path]>>
    ELSE MapGet(base.mounting_points, path)

\* insert_inner, first loop: mount the config at each of its paths.
RECURSIVE MountConfigPaths(_, _, _)
MountConfigPaths(base, patch, paths) ==
    IF paths = <<>> THEN Ok(patch)
    ELSE LET path == Head(paths)
             mount == Mount(base, patch, path)
         IN IF mount # <<>> /\ mount[1].kind = "Param"
            THEN Bail(patch, Err("ConfigOnParam", path, {}, {}))
            ELSE MountConfigPaths(
                    base,
                    [patch EXCEPT !.mounting_points = MapPut(@, path, MountConfig)],
                    Tail(paths))

\* Mutant of TypesDiffer: the expected types are not compared.
TypesNeverDiffer(prev_expecting, expecting) == FALSE

\* The comparison of the expected types of two params mounted at one path.
TypesDiffer(prev_expecting, expecting) == prev_expecting # expecting

\* The canonical flag of a param mount.
IsCanonical(was_canonical, name_i) == was_canonical \/ name_i = 0

\* insert_inner, second loop: `items` are the (param, name_i, full_name)
\* triples in iteration order.
RECURSIVE MountParamPaths(_, _, _)
MountParamPaths(base, patch, items) ==
    IF items = <<>> THEN Ok(patch)
    ELSE LET it == Head(items)
             mount == Mount(base, patch, it.full_name)
             was_canonical == mount # <<>> /\ mount[1].kind = "Param" /\ mount[1].is_canonical
         IN IF mount # <<>> /\ mount[1].kind = "Config"
            THEN Bail(patch, Err("ParamOnConfig", it.full_name, {}, {}))
            ELSE IF mount # <<>> /\ TypesDiffer(mount[1].expecting, it.expecting)
            THEN Bail(patch, Err("TypeMismatch", it.full_name, mount[1].expecting, it.expecting))
            ELSE MountParamPaths(
                    base,
                    [patch EXCEPT !.mounting_points =
                        MapPut(@, it.full_name,
                               MountParam(it.expecting, IsCanonical(was_canonical, it.name_i)))],
                    Tail(items))

ParamItems(data) ==
    LET params == Meta[data.metadata].params
    IN Concat([p \in 1..Len(params) |->
          LET all_paths == AllPathsForParam(data, params[p])
          IN [i \in 1..Len(all_paths) |->
                [full_name |-> all_paths[i].path, name_i |-> i - 1,
                 expecting |-> params[p].expecting]]])

\* Mutant of MergePaths: the new paths are put in front of the existing ones.
MergePathsInFront(prev_paths, new_paths) == new_paths \o prev_paths

\* insert_inner, last part: the staged entry carries the base entry's paths
\* followed by the new ones.
MergePaths(prev_paths, new_paths) == prev_paths \o new_paths

\* insert_inner, last part: stage the entry in the patch.  `data` is the new
\* data of the config, so the base is consulted for its existing data.
StageEntry(base, r, prefix, depth, data, prev_data) ==
    IF ~r.ok THEN r
    ELSE Ok([r.patch EXCEPT !.configs =
               MapPut(@, prefix,
                      ConfigsForPrefixInsert(
                          IF prefix \in DOMAIN r.patch.configs
                          THEN r.patch.configs[prefix]
                          ELSE ConfigsForPrefixDefault,
                          data.metadata, depth,
                          IF prev_data # <<>>
                          THEN [data EXCEPT !.all_paths =
                                   MergePaths(prev_data[1].all_paths, data.all_paths)]
                          ELSE data))])

\* insert_inner, from the second loop on; `r` is the outcome of the first.
StageParams(base, r, prefix, depth, data) ==
    IF ~r.ok THEN r
    ELSE StageEntry(base, MountParamPaths(base, r.patch, ParamItems(data)),
                    prefix, depth, data, GetLL(base, prefix, data.metadata))

\* PatchedSchema::insert_inner
InsertInner(base, patch, prefix, depth, data) ==
    StageParams(base,
                MountConfigPaths(base, patch,
                    <<prefix>> \o
                    [i \in 1..Len(data.all_paths) |-> data.all_paths[i].path]),
                prefix, depth, data)

\* Mutant of ListNestedConfigs: a nested config is keyed by the prefix of its
\* parent, without its own name.
ListNestedConfigsAtParent(prefix, data) ==
    LET nested == Meta[data.metadata].nested_configs
    IN [n \in 1..Len(nested) |->
          [prefix |-> prefix,
           data |-> ConfigData(nested[n].meta,
                               ParentLink(data.metadata, n),
                               FALSE,
                               data.coerce_serde_enums,
                               AllPathsForChild(data, nested[n].name, nested[n].aliases,
                                                nested[n].tag_variant))]]

\* Mutant of ListNestedConfigs: the nested configs get no parent link.
ListNestedConfigsUnlinked(prefix, data) ==
    LET nested == Meta[data.metadata].nested_configs
    IN [n \in 1..Len(nested) |->
          [prefix |-> Join(prefix, NameOf(nested[n].name).segs),
           data |-> ConfigData(nested[n].meta,
                               NoLink,
                               FALSE,
                               data.coerce_serde_enums,
                               AllPathsForChild(data, nested[n].name, nested[n].aliases,
                                                nested[n].tag_variant))]]

\* PatchedSchema::list_nested_configs
ListNestedConfigs(prefix, data) ==
    LET nested == Meta[data.metadata].nested_configs
    IN [n \in 1..Len(nested) |->
          [prefix |-> Join(prefix, NameOf(nested[n].name).segs),
           data |-> ConfigData(nested[n].meta,
                               ParentLink(data.metadata, n),
                               FALSE,
                               data.coerce_serde_enums,
                               AllPathsForChild(data, nested[n].name, nested[n].aliases,
                                                nested[n].tag_variant))]]

\* Mutant of AlreadyPresent: a registered config is staged again.
NeverPresent(base, is_new, prefix, ty) == FALSE

\* The check that makes re-insertion skip a config and its nested configs.
AlreadyPresent(base, is_new, prefix, ty) == is_new /\ GetLL(base, prefix, ty) # <<>>

\* Mutant of NewConfigs: the nested configs are not visited.
NewConfigsNone(item) == <<>>

\* The pending entries of the nested configs of a popped config.
NewConfigs(item) ==
    LET nested == ListNestedConfigs(item.prefix, item.data)
    IN [i \in 1..Len(nested) |->
          [prefix |-> nested[i].prefix, data |-> nested[i].data,
           depth |-> IF item.depth = <<>> THEN <<>> ELSE <<item.depth[1] + 1>>]]

\* PatchedSchema::insert_recursively: the loop over the stack of pending
\* configs.  WorklistStep continues after insert_inner returned `r`.
RECURSIVE Worklist(_, _, _, _)
RECURSIVE WorklistStep(_, _, _, _)
WorklistStep(base, r, pending, is_new) ==
    IF ~r.ok THEN r ELSE Worklist(base, r.patch, pending, is_new)

Worklist(base, patch, pending, is_new) ==
    IF pending = <<>> THEN Ok(patch)
    ELSE LET item == pending[Len(pending)]
             rest == SubSeq(pending, 1, Len(pending) - 1)
         IN IF AlreadyPresent(base, is_new, item.prefix, item.data.metadata)
            THEN Worklist(base, patch, rest, is_new)
            ELSE WorklistStep(base,
                              InsertInner(base, patch, item.prefix, item.depth, item.data),
                              rest \o NewConfigs(item), is_new)

InsertRecursively(base, patch, prefix, is_new, data) ==
    Worklist(base, patch,
             <<[prefix |-> prefix, data |-> data, depth |-> IF is_new THEN <<0>> ELSE <<>>]>>,
             is_new)

\* PatchedSchema::insert_config
InsertConfig(base, patch, prefix, metadata, coerce_serde_enums) ==
    InsertRecursively(base, patch, prefix, TRUE,
                      ConfigData(metadata, NoLink, TRUE, coerce_serde_enums,
                                 <<PathEntry(prefix, AliasOptionsNew)>>))

\* Mutant of AliasExists: the no-op shortcut is never taken.
AliasNeverExists(config_data, alias) == FALSE

\* The no-op test of insert_alias.
AliasExists(config_data, alias) ==
    \E i \in 1..Len(config_data.all_paths) : config_data.all_paths[i].path = alias

\* The config data insert_alias seeds the worklist with.
AliasData(config_data, alias, options) ==
    ConfigData(config_data.metadata, config_data.parent_link, config_data.is_top_level,
               config_data.coerce_serde_enums, <<PathEntry(alias, options)>>)

\* PatchedSchema::insert_alias
InsertAlias(base, patch, prefix, config_id, alias, options) ==
    IF AliasExists(base.configs[prefix].inner[config_id], alias) THEN Ok(patch)
    ELSE InsertRecursively(base, patch, prefix, FALSE,
                           AliasData(base.configs[prefix].inner[config_id], alias, options))

\* PatchedSchema::commit
Commit(base, patch) ==
    [base EXCEPT
       !.configs = [prefix \in (DOMAIN base.configs) \cup (DOMAIN patch.configs) |->
                      IF prefix \in DOMAIN patch.configs
                      THEN ConfigsForPrefixExtend(
                              IF prefix \in DOMAIN base.configs THEN base.configs[prefix]
                              ELSE ConfigsForPrefixDefault,
                              patch.configs[prefix])
                      ELSE base.configs[prefix]],
       !.mounting_points = MapExtend(@, patch.mounting_points)]

\* Mutant of CommitIfOk: the patch is committed whether or not staging failed.
CommitAlways(base, r) == Commit(base, r.patch)

\* The caller's decision after staging: commit on success, drop on error.
CommitIfOk(base, r) == IF r.ok THEN Commit(base, r.patch) ELSE base

\* The outcome of a call: Ok / Err, and the schema it leaves behind.
Outcome(base, r) ==
    [ok |-> r.ok, err |-> r.err, staged |-> Staged(r.patch), schema |-> CommitIfOk(base, r)]

\* ConfigSchema::insert
Insert(s, metadata, prefix) ==
    Outcome(s, InsertConfig(s, SchemaDefault, prefix, metadata, s.coerce_serde_enums))

\* ConfigSchema::new: insert into the default schema; `expect` panics if the
\* insert fails.
New(metadata, prefix) ==
    [panic |-> ~Insert(SchemaDefault, metadata, prefix).ok,
     schema |-> Insert(SchemaDefault, metadata, prefix).schema]

\* ConfigMut::push_alias_inner
PushAliasInner(s, prefix, type_id, alias, options) ==
    Outcome(s, InsertAlias(s, SchemaDefault, prefix, type_id, alias, options))

----------------------------------------------------------------------------
(* Iteration over the registry *)

\* The order of the keys of `configs` (a BTreeMap keyed by the prefix
\* string).  The segments of the model are alphanumeric, so the order of the
\* strings is the lexicographic order of the segment sequences.
SegOrder == <<"a", "b", "d", "e", "foo", "m", "q", "x", "y", "z">>

SegRank(seg) == CHOOSE i \in 1..Len(SegOrder) : SegOrder[i] = seg

RECURSIVE PathLess(_, _)
PathLess(p, q) ==
    IF p = <<>> THEN q # <<>>
    ELSE IF q = <<>> THEN FALSE
    ELSE IF Head(p) = Head(q) THEN PathLess(Tail(p), Tail(q))
    ELSE SegRank(Head(p)) < SegRank(Head(q))

\* The prefixes of `configs` in key order.
RECURSIVE SortedPrefixes(_)
SortedPrefixes(prefixes) ==
    IF prefixes = {} THEN <<>>
    ELSE LET first == CHOOSE p \in prefixes : \A q \in prefixes \ {p} : PathLess(p, q)
         IN <<first>> \o SortedPrefixes(prefixes \ {first})

\* The order of TypeId values is fixed by the build and otherwise arbitrary:
\* an order is a rank function on the types.  The two orders below rank every
\* pair of types both ways.
TypeIdRank ==
    [ty \in Types |->
        CASE ty = "Leaf" -> 1 [] ty = "Ali" -> 2 [] ty = "Ov" -> 3 [] ty = "Dis" -> 4
          [] ty = "Par" -> 5 [] ty = "Bad" -> 6 [] ty = "Enum" -> 7 [] ty = "ParE" -> 8
          [] ty = "Bz" -> 9 [] ty = "Mid" -> 10 [] ty = "Dia" -> 11
          [] ty = "FbA" -> 12 [] ty = "FbB" -> 13 [] ty = "ServerConfig" -> 14]

TypeIdOrders == {TypeIdRank, [ty \in Types |-> 0 - TypeIdRank[ty]]}

\* ConfigsForPrefix::by_depth: the (depth, type) pairs in the order of the
\* BTreeSet, each giving the data stored for the type.
RECURSIVE SortedByDepth(_, _)
SortedByDepth(pairs, ord) ==
    IF pairs = {} THEN <<>>
    ELSE LET first == CHOOSE x \in pairs : \A y \in pairs \ {x} :
                          x[1] < y[1] \/ (x[1] = y[1] /\ ord[x[2]] < ord[y[2]])
         IN <<first>> \o SortedByDepth(pairs \ {first}, ord)

ByDepth(cfp, ord) ==
    LET sorted == SortedByDepth(cfp.by_depth, ord)
    IN [i \in 1..Len(sorted) |-> cfp.inner[sorted[i][2]]]

ConfigRef(prefix, data) == [prefix |-> prefix, data |-> data]

\* ConfigSchema::iter
Iter(s, ord) ==
    LET prefixes == SortedPrefixes(DOMAIN s.configs)
    IN Concat([p \in 1..Len(prefixes) |->
          LET datas == ByDepth(s.configs[prefixes[p]], ord)
          IN [i \in 1..Len(datas) |-> ConfigRef(prefixes[p], datas[i])]])

\* ConfigSchema::get
Get(s, metadata, prefix) ==
    IF GetLL(s, prefix, metadata) = <<>> THEN <<>>
    ELSE <<ConfigRef(prefix, GetLL(s, prefix, metadata)[1])>>

\* ConfigRef::prefix
RefPrefix(ref) == ref.prefix

\* ConfigRef::is_top_level
IsTopLevel(ref) == ref.data.parent_link = NoLink

\* The unique key of a ref: its location and config type.
KeyOf(ref) == <<ref.prefix, ref.data.metadata>>

\* ConfigRef::parent_link, as the key of the parent config (None if the ref
\* has no parent link or the parent is not registered).
ParentLinkOf(s, ref) ==
    IF ref.data.parent_link = NoLink THEN <<>>
    ELSE LET link == ref.data.parent_link[1]
             this_ref == Meta[link.parent_ty].nested_configs[link.this_ref]
             parent_prefix == IF this_ref.name = "" THEN ref.prefix
                              ELSE SplitLast(ref.prefix)[1]
         IN IF GetLL(s, parent_prefix, link.parent_ty) = <<>> THEN <<>>
            ELSE <<<<parent_prefix, link.parent_ty>>>>

----------------------------------------------------------------------------
(* error.rs: ParseError and ParseErrors *)

\* A rendered message is the sequence of its pieces: words, blanks and
\* punctuation marks are pieces of their own.

\* The piece for the character ` (U+0060), which a string of this module
\* cannot hold.
Backtick == "<backtick>"

ParseError(inner, category, path, origin, config, location_in_config, validation) ==
    [inner |-> inner, category |-> category, path |-> path, origin |-> origin,
     config |-> config, location_in_config |-> location_in_config,
     validation |-> validation]

\* ParseError::generic
Generic(path, config) ==
    ParseError("unspecified error deserializing configuration", "Generic", path,
               "Unknown", config, <<>>, <<>>)

\* Display for ValueOrigin (rendered by the value module).
OriginText(origin) == <<origin>>

\* Mutant of FieldText: the parameter name is put in double quotes.
FieldTextQuoted(e) ==
    IF e.location_in_config = <<>> THEN <<>>
    ELSE IF e.location_in_config[1] >= Len(Meta[e.config].params) THEN <<>>
    ELSE <<"param", " ", "\"", Meta[e.config].params[e.location_in_config[1] + 1].name, "\"",
           " ", "in", " ">>

\* Display for ParseError: the `field` part.  `location_in_config` holds the
\* index of LocationInConfig::Param, counted from 0.
FieldText(e) ==
    IF e.location_in_config = <<>> THEN <<>>
    ELSE IF e.location_in_config[1] >= Len(Meta[e.config].params) THEN <<>>
    ELSE <<"param", " ", Backtick, Meta[e.config].params[e.location_in_config[1] + 1].name, Backtick,
           " ", "in", " ">>

\* Display for ParseError: the `origin` part.
OriginPart(e) ==
    IF e.origin = "Unknown" THEN <<>>
    ELSE <<" ", "[", "origin", ":", " ">> \o OriginText(e.origin) \o <<"]">>

\* Mutant of FailedAction: the validation description is ignored.
FailedActionParsing(e) == <<"parsing">>

\* Display for ParseError: the `failed_action` part.
FailedAction(e) ==
    IF e.validation # <<>>
    THEN <<"validating", " ", "'", e.validation[1], "'", " ", "for">>
    ELSE <<"parsing">>

\* Display for ParseError
Display(e) ==
    <<"error", " ">> \o FailedAction(e) \o <<" ">> \o FieldText(e) \o
    <<Backtick, e.config, Backtick, " ", "at", " ", Backtick, e.path, Backtick>> \o OriginPart(e) \o
    <<":", " ", e.inner>>

\* ParseErrors { errors }
ParseErrors(errors) == [errors |-> errors]

\* ParseErrors::default (derived)
ParseErrorsDefault == ParseErrors(<<>>)

\* ParseErrors::push
Push(this, err) == ParseErrors(Append(this.errors, err))

\* ParseErrors::iter
IterErrors(this) == this.errors

\* ParseErrors::len
LenErrors(this) == Len(this.errors)

\* ParseErrors::first: the first error, or a panic ("no errors").
First(this) ==
    IF this.errors = <<>> THEN [panic |-> TRUE, err |-> <<>>]
    ELSE [panic |-> FALSE, err |-> <<this.errors[1]>>]

\* ParseErrors::truncate (Vec::truncate: no effect if len is not smaller).
Truncate(this, len) ==
    ParseErrors(SubSeq(this.errors, 1, IF len < Len(this.errors) THEN len
                                       ELSE Len(this.errors)))

\* Mutant of FromIter: an error equal to an earlier one is dropped.
FromIterDedup(iter) ==
    LET Fresh(i) == \A j \in 1..(i - 1) : iter[j] # iter[i]
        kept == SelectSeq([i \in 1..Len(iter) |-> i], Fresh)
    IN IF iter = <<>> THEN [ok |-> TRUE, err |-> <<>>]
       ELSE [ok |-> FALSE, err |-> <<ParseErrors([k \in 1..Len(kept) |-> iter[kept[k]]])>>]

\* FromIterator<ParseError> for Result<(), ParseErrors>
FromIter(iter) ==
    IF iter = <<>> THEN [ok |-> TRUE, err |-> <<>>]
    ELSE [ok |-> FALSE, err |-> <<ParseErrors(iter)>>]

----------------------------------------------------------------------------
(* fallback.rs: Fallbacks *)

\* WithOrigin { inner, origin }
WithOrigin(value, origin) == [value |-> value, origin |-> origin]

\* The value an env variable holds when it is set.
EnvValue(var) == <<"value of", var>>

\* Env::get_raw: `env` tells which variables are set (mock or real).
GetRaw(env, var) == IF env[var] THEN <<EnvValue(var)>> ELSE <<>>

\* FallbackSource::provide_value for Env
ProvideValue(env, source) ==
    IF GetRaw(env, source.var) # <<>>
    THEN <<WithOrigin(GetRaw(env, source.var)[1],
                      [kind |-> "Path", source |-> "EnvVars", path |-> source.var])>>
    ELSE <<>>

\* The synthetic origin Fallbacks::new wraps a provided value in.
Synthetic(source, ty, field) ==
    [kind |-> "Synthetic", source |-> source,
     transform |-> <<"fallback for ", Backtick, ty, ".", field, Backtick>>]

\* The values of a HashMap are iterated in an order the program does not
\* control: `ord` ranks the keys.
RECURSIVE SortedTypes(_, _)
SortedTypes(tys, ord) ==
    IF tys = {} THEN <<>>
    ELSE LET first == CHOOSE x \in tys : \A y \in tys \ {x} : ord[x] < ord[y]
         IN <<first>> \o SortedTypes(tys \ {first}, ord)

\* ConfigSchema::iter_ll, in iteration order.
IterLL(s, ord) ==
    LET prefixes == SortedPrefixes(DOMAIN s.configs)
    IN Concat([p \in 1..Len(prefixes) |->
          LET tys == SortedTypes(DOMAIN s.configs[prefixes[p]].inner, ord)
          IN [i \in 1..Len(tys) |->
                [prefix |-> prefixes[p], data |-> s.configs[prefixes[p]].inner[tys[i]]]]])

\* Fallbacks::new, inner loop body: the overlay entry of one parameter of a
\* config, if its fallback source provides a value.
FallbackEntry(env, prefix, ty, param) ==
    IF param.fallback = <<>> THEN <<>>
    ELSE IF ProvideValue(env, param.fallback[1]) = <<>> THEN <<>>
    ELSE <<[key |-> <<prefix, param.name>>,
            val |-> WithOrigin(ProvideValue(env, param.fallback[1])[1].value,
                               Synthetic(ProvideValue(env, param.fallback[1])[1].origin,
                                         ty, param.rust_field_name))]>>

\* HashMap::insert for each entry in turn.
RECURSIVE InsertAll(_, _)
InsertAll(map, entries) ==
    IF entries = <<>> THEN map
    ELSE InsertAll(MapPut(map, Head(entries).key, Head(entries).val), Tail(entries))

\* Fallbacks::new, last part: None for no entries.
FallbacksOf(inner) ==
    IF inner = EmptyMap THEN <<>>
    ELSE <<[inner |-> inner, origin |-> "Fallbacks"]>>

\* Fallbacks::new
FallbacksNew(s, env, ord) ==
    LET configs == IterLL(s, ord)
    IN FallbacksOf(
          InsertAll(EmptyMap,
              Concat([c \in 1..Len(configs) |->
                 Concat([i \in 1..Len(Meta[configs[c].data.metadata].params) |->
                    FallbackEntry(env, configs[c].prefix, configs[c].data.metadata,
                                  Meta[configs[c].data.metadata].params[i])])])))

\* ConfigSource::into_contents for Fallbacks: each value at the path of its
\* prefix joined with the parameter name.
IntoContents(fallbacks) ==
    [path \in {Join(k[1], <<k[2]>>) : k \in DOMAIN fallbacks.inner} |->
        fallbacks.inner[CHOOSE k \in DOMAIN fallbacks.inner : Join(k[1], <<k[2]>>) = path]]

\* The first of the paths that holds a value in `values`.
FirstHit(paths, values) ==
    LET Hit(entry) == entry.path \in DOMAIN values
    IN SelectSeq(paths, Hit)

\* Mutant of Resolve: the fallbacks are merged under the supplied values as
\* one more source, and the paths of the parameter are then tried in order.
ResolveMerged(s, overlay, supplied, key, param) ==
    LET merged == IF overlay = <<>> THEN supplied
                  ELSE MapExtend(IntoContents(overlay[1]), supplied)
        hits == FirstHit(AllPathsForParam(Entry(s, key), param), merged)
    IN IF hits = <<>> THEN <<>> ELSE <<merged[hits[1].path]>>

\* The value of a parameter: the supplied value at the first of its paths
\* that has one, else the fallback value at its canonical path.
Resolve(s, overlay, supplied, key, param) ==
    LET hits == FirstHit(AllPathsForParam(Entry(s, key), param), supplied)
        canonical == Join(key[1], <<param.name>>)
    IN IF hits # <<>> THEN <<supplied[hits[1].path]>>
       ELSE IF overlay # <<>> /\ canonical \in DOMAIN IntoContents(overlay[1])
       THEN <<IntoContents(overlay[1])[canonical]>>
       ELSE <<>>

\* No overlay computed, no env variable known.
NoFb == [env |-> EmptyMap, overlay |-> <<>>, computed |-> FALSE]

----------------------------------------------------------------------------
(* The state machine: calls on one ConfigSchema *)

\* Bounds of the model: the number of registered configs a schema may hold
\* before a further insert, and the number of alias entries (over all path
\* lists) it may hold before a further alias push.
MaxConfigs == 3

MaxAliases == 2

\* The inputs of one exploration: the (config type, prefix) pairs and the
\* aliases the calls draw from, and whether coerce_serde_enums is called.
MenuTypeSets ==
    [inserts |-> {"Leaf", "Ali", "Ov", "Dis"} \X {<<"a">>, <<"b">>},
     aliases |-> {<<"b">>},
     toggle |-> FALSE, vars |-> {}]

MenuNesting ==
    [inserts |-> ({"Par", "Ali", "Bad"} \X {<<>>}) \cup ({"Leaf"} \X {<<>>, <<"d">>}),
     aliases |-> {<<>>, <<"e">>, <<"q">>},
     toggle |-> FALSE, vars |-> {}]

MenuCoercion ==
    [inserts |-> {<<"Enum", <<"d">>>>, <<"Enum", <<>>>>, <<"ParE", <<>>>>,
                  <<"Bz", <<"d", "foo">>>>},
     aliases |-> {<<"q">>},
     toggle |-> TRUE, vars |-> {}]

\* Dia flattens Mid and Leaf, and Mid flattens Leaf.
MenuFlattened ==
    [inserts |-> {"Dia", "Mid", "Leaf"} \X {<<>>},
     aliases |-> {<<"q">>},
     toggle |-> FALSE, vars |-> {}]

\* FbA and FbB both have a parameter x with a fallback source (the env
\* variables V1 and V2); `vars` are the env variables that get set and unset.
MenuFallbacks ==
    [inserts |-> {<<"FbA", <<"a">>>>, <<"FbB", <<"a">>>>, <<"FbB", <<"b">>>>},
     aliases |-> {<<"q">>},
     toggle |-> FALSE, vars |-> {"V1", "V2"}]

Menus == {MenuTypeSets, MenuNesting, MenuCoercion, MenuFlattened, MenuFallbacks}

NoCall ==
    [op |-> "none", metadata |-> "", prefix |-> <<>>, alias |-> <<>>,
     options |-> FALSE, ok |-> TRUE, err |-> NoErr, staged |-> 0]

\* History of the scenario "insert a new config, push_alias(a), then
\* push_deprecated_alias(b)": stage counts the steps taken so far.
NoTrack == [stage |-> 0, key |-> <<>>, a |-> <<>>, b |-> <<>>]

RECURSIVE SumLen(_, _)
SumLen(s, keys) ==
    IF keys = {} THEN 0
    ELSE LET k == CHOOSE k \in keys : TRUE
         IN (Len(Entry(s, k).all_paths) - 1) + SumLen(s, keys \ {k})

\* The number of alias entries over all path lists of the schema.
AliasCount(s) == SumLen(s, Registered(s))

\* The state of the error collection before any operation on it: no
\* ParseErrors value exists, nothing was collected or rendered.
NoErrs ==
    [op |-> "none", input |-> <<>>, value |-> <<>>, ok |-> TRUE,
     shown |-> <<>>, text |-> <<>>]

Init ==
    /\ schema = SchemaDefault
    /\ last = NoCall
    /\ track = NoTrack
    /\ menu \in Menus
    /\ errs = NoErrs
    /\ fb = [NoFb EXCEPT !.env = [var \in menu.vars |-> FALSE]]

\* The effect of a call with outcome `r` on the state.
Effect(call, r, tracked) ==
    /\ schema' = r.schema
    /\ last' = [call EXCEPT !.ok = r.ok, !.err = r.err, !.staged = r.staged]
    /\ track' = IF r.ok THEN tracked ELSE NoTrack
    /\ fb' = [fb EXCEPT !.overlay = <<>>, !.computed = FALSE]
    /\ UNCHANGED <<menu, errs>>

\* schema.insert(metadata, prefix)
CallInsert(metadata, prefix) ==
    /\ Cardinality(Registered(schema)) < MaxConfigs
    /\ Effect([NoCall EXCEPT !.op = "insert", !.metadata = metadata, !.prefix = prefix],
              Insert(schema, metadata, prefix),
              IF GetLL(schema, prefix, metadata) = <<>>
              THEN [NoTrack EXCEPT !.stage = 1, !.key = <<prefix, metadata>>]
              ELSE NoTrack)

\* schema.get_mut(metadata, prefix).unwrap().push_alias(alias)
CallPushAlias(metadata, prefix, alias) ==
    /\ GetLL(schema, prefix, metadata) # <<>>
    /\ AliasCount(schema) < MaxAliases
    /\ Effect([NoCall EXCEPT !.op = "push_alias", !.metadata = metadata,
                             !.prefix = prefix, !.alias = alias],
              PushAliasInner(schema, prefix, metadata, alias, AliasOptionsNew),
              IF track.stage = 1 /\ track.key = <<prefix, metadata>>
              THEN [track EXCEPT !.stage = 2, !.a = alias]
              ELSE NoTrack)

\* schema.get_mut(metadata, prefix).unwrap().push_deprecated_alias(alias)
CallPushDeprecatedAlias(metadata, prefix, alias) ==
    /\ GetLL(schema, prefix, metadata) # <<>>
    /\ AliasCount(schema) < MaxAliases
    /\ Effect([NoCall EXCEPT !.op = "push_deprecated_alias", !.metadata = metadata,
                             !.prefix = prefix, !.alias = alias, !.options = TRUE],
              PushAliasInner(schema, prefix, metadata, alias, TRUE),
              IF track.stage = 2 /\ track.key = <<prefix, metadata>>
              THEN [track EXCEPT !.stage = 3, !.b = alias]
              ELSE NoTrack)

\* schema.coerce_serde_enums(coerce)
CallCoerceSerdeEnums(coerce) ==
    /\ menu.toggle
    /\ schema' = [schema EXCEPT !.coerce_serde_enums = coerce]
    /\ last' = [NoCall EXCEPT !.op = "coerce_serde_enums", !.options = coerce]
    /\ track' = NoTrack
    /\ fb' = [fb EXCEPT !.overlay = <<>>, !.computed = FALSE]
    /\ UNCHANGED <<menu, errs>>

\* tester.set_env(var, ..) / removal of the variable.  An overlay computed
\* before is not kept.
CallSetEnv(var, on) ==
    /\ fb.env[var] # on
    /\ fb' = [env |-> [fb.env EXCEPT ![var] = on], overlay |-> <<>>, computed |-> FALSE]
    /\ last' = [NoCall EXCEPT !.op = "set_env"]
    /\ track' = NoTrack
    /\ UNCHANGED <<schema, menu, errs>>

\* Fallbacks::new(&schema), with the order `ord` of the HashMap values.
CallFallbacksNew(ord) ==
    /\ menu.vars # {}
    /\ fb' = [fb EXCEPT !.overlay = FallbacksNew(schema, fb.env, ord), !.computed = TRUE]
    /\ last' = [NoCall EXCEPT !.op = "fallbacks_new"]
    /\ track' = NoTrack
    /\ UNCHANGED <<schema, menu, errs>>

Next ==
    \/ \E key \in menu.inserts : CallInsert(key[1], key[2])
    \/ \E key \in Registered(schema), alias \in menu.aliases :
          CallPushAlias(key[2], key[1], alias)
    \/ \E key \in Registered(schema), alias \in menu.aliases :
          CallPushDeprecatedAlias(key[2], key[1], alias)
    \/ \E coerce \in BOOLEAN : CallCoerceSerdeEnums(coerce)
    \/ \E var \in menu.vars, on \in BOOLEAN : CallSetEnv(var, on)
    \/ \E ord \in TypeIdOrders : CallFallbacksNew(ord)

Spec == Init /\ [][Next]_vars

----------------------------------------------------------------------------
(* The state machine: operations on one ParseErrors value *)

\* Bound of the model: the number of errors in a collection or an iterator.
MaxErrors == 3

\* The errors the collections are made of.
ErrPool ==
    {Generic("a.x", "Leaf"),
     ParseError("invalid type", "Generic", "a.x", "EnvVars", "Leaf", <<0>>, <<>>)}

\* The errors that are rendered: with and without a validation description,
\* without a parameter index, with a valid one (Leaf has one parameter) and
\* with an invalid one, with an unknown and with a known origin.
AllErrors ==
    {ParseError("invalid type", "Generic", "a.x", origin, "Leaf", location, validation) :
        origin \in {"Unknown", "EnvVars"},
        location \in {<<>>, <<0>>, <<1>>},
        validation \in {<<>>, <<"must be positive">>}}

\* ErrorWithOrigin::missing_field as a ParseError: the missing required
\* parameter port (index 0) of ServerConfig at server.port.
MissingFieldErrors ==
    {ParseError("missing field", "MissingField", "server.port", origin, "ServerConfig",
                <<0>>, <<>>) :
        origin \in {"Unknown", "EnvVars"}}

\* The iterators of errors that are collected.
ErrIters == UNION {[1..n -> ErrPool] : n \in 0..MaxErrors}

NoMenu == [inserts |-> {}, aliases |-> {}, toggle |-> FALSE, vars |-> {}]

InitErrors ==
    /\ schema = SchemaDefault
    /\ last = NoCall
    /\ track = NoTrack
    /\ menu = NoMenu
    /\ errs = NoErrs
    /\ fb = NoFb

\* ParseErrors::default()
CallDefault ==
    /\ errs' = [errs EXCEPT !.op = "default", !.input = <<>>,
                            !.value = <<ParseErrorsDefault>>, !.ok = TRUE]
    /\ UNCHANGED <<schema, last, track, menu, fb>>

\* errors.push(err)
CallPush(err) ==
    /\ errs.value # <<>>
    /\ LenErrors(errs.value[1]) < MaxErrors
    /\ errs' = [errs EXCEPT !.op = "push", !.input = <<>>,
                            !.value = <<Push(errs.value[1], err)>>]
    /\ UNCHANGED <<schema, last, track, menu, fb>>

\* errors.truncate(len)
CallTruncate(len) ==
    /\ errs.value # <<>>
    /\ errs' = [errs EXCEPT !.op = "truncate", !.input = <<>>,
                            !.value = <<Truncate(errs.value[1], len)>>]
    /\ UNCHANGED <<schema, last, track, menu, fb>>

\* iter.collect::<Result<(), ParseErrors>>()
CallCollect(iter) ==
    /\ errs' = [errs EXCEPT !.op = "collect", !.input = iter,
                            !.value = FromIter(iter).err, !.ok = FromIter(iter).ok]
    /\ UNCHANGED <<schema, last, track, menu, fb>>

\* err.to_string()
CallDisplay(err) ==
    /\ errs' = [errs EXCEPT !.op = "display", !.shown = <<err>>, !.text = Display(err)]
    /\ UNCHANGED <<schema, last, track, menu, fb>>

NextErrors ==
    \/ CallDefault
    \/ \E err \in ErrPool : CallPush(err)
    \/ \E len \in 0..MaxErrors : CallTruncate(len)
    \/ \E iter \in ErrIters : CallCollect(iter)
    \/ \E err \in AllErrors \cup MissingFieldErrors : CallDisplay(err)

SpecErrors == InitErrors /\ [][NextErrors]_vars

----------------------------------------------------------------------------
(* Vocabulary of the properties *)

MutatingOps == {"insert", "push_alias", "push_deprecated_alias"}

AliasOps == {"push_alias", "push_deprecated_alias"}

\* The paths (prefix and aliases) of the registered config `key`.
PathsOf(s, key) == {Entry(s, key).all_paths[i].path : i \in 1..Len(Entry(s, key).all_paths)}

\* The paths of all registered configs.
ConfigPaths(s) == UNION {PathsOf(s, key) : key \in Registered(s)}

\* The generated paths of the parameters of the registered config `key`,
\* each with the parameter's expected types.
ParamPathsOf(s, key) ==
    {[path |-> it.full_name, expecting |-> it.expecting] :
        it \in Range(ParamItems(Entry(s, key)))}

ParamPaths(s) == UNION {ParamPathsOf(s, key) : key \in Registered(s)}

IsParamMount(s, path) ==
    path \in DOMAIN s.mounting_points /\ s.mounting_points[path].kind = "Param"

IsConfigMount(s, path) ==
    path \in DOMAIN s.mounting_points /\ s.mounting_points[path].kind = "Config"

----------------------------------------------------------------------------
(* C1 *)

\* C1: whenever insert, push_alias or push_deprecated_alias returns an error,
\* the schema (registry entries, path lists, depth index, mounting points) is
\* exactly as before the call.
C1_AllOrNothing ==
    [][(last'.op \in MutatingOps /\ ~last'.ok) => schema' = schema]_vars

\* An insert into a non-empty schema failed after two configs had been staged.
C1_Witness ==
    /\ last.op = "insert" /\ ~last.ok /\ last.staged >= 2
    /\ Registered(schema) # {}

----------------------------------------------------------------------------
(* C2 *)

\* C2: in every reachable schema no absolute path is both a path of a
\* registered config and a generated path of a parameter of a registered
\* config, and two registered parameters that share a generated path have
\* equal expected-type sets.
C2_PathExclusivity ==
    /\ \A pm \in ParamPaths(schema) : pm.path \notin ConfigPaths(schema)
    /\ \A pm1, pm2 \in ParamPaths(schema) :
          pm1.path = pm2.path => pm1.expecting = pm2.expecting

----------------------------------------------------------------------------
(* C5 *)

\* C5: insert returns an error only if a parameter lands on a mounted config,
\* a config lands on a mounted parameter, or a parameter lands on a parameter
\* whose expected-type set is disjoint from its own; type sets that overlap
\* without being equal do not make insert fail.
C5_DocumentedErrors ==
    (last.op = "insert" /\ ~last.ok) =>
        \/ last.err.kind \in {"ParamOnConfig", "ConfigOnParam"}
        \/ last.err.kind = "TypeMismatch" /\ last.err.prev \cap last.err.new = {}

----------------------------------------------------------------------------
(* C6 *)

\* C6: insert(metadata, prefix) of an already registered (metadata, prefix)
\* succeeds and leaves registry, path lists, depth index and mounting points
\* unchanged.
C6_ReinsertIdempotent ==
    [][(last'.op = "insert" /\ GetLL(schema, last'.prefix, last'.metadata) # <<>>)
        => (last'.ok /\ schema' = schema)]_vars

\* A config that was registered as a nested child has just been re-inserted
\* directly.
C6_Witness ==
    /\ last.op = "insert" /\ last.ok /\ last.staged = 0
    /\ GetLL(schema, last.prefix, last.metadata) # <<>>
    /\ Entry(schema, <<last.prefix, last.metadata>>).parent_link # NoLink

----------------------------------------------------------------------------
(* C7 *)

\* C7: for every registered config and each of its parameters, every path
\* yielded by all_paths_for_param is mounted as a Param with the parameter's
\* expected types, every path of the config is mounted as a Config, and the
\* first path yielded for a parameter is the canonical prefix joined with the
\* parameter's name.
C7_RegistryAgreesWithMounts ==
    \A key \in Registered(schema) :
        /\ \A pm \in ParamPathsOf(schema, key) :
              /\ IsParamMount(schema, pm.path)
              /\ schema.mounting_points[pm.path].expecting = pm.expecting
        /\ \A path \in PathsOf(schema, key) : IsConfigMount(schema, path)
        /\ \A i \in 1..Len(Meta[key[2]].params) :
              LET yielded == AllPathsForParam(Entry(schema, key), Meta[key[2]].params[i])
              IN /\ yielded # <<>>
                 /\ yielded[1].path = Join(key[1], <<Meta[key[2]].params[i].name>>)

----------------------------------------------------------------------------
(* C9 *)

\* C9: pushing an alias that already occurs in the path list of the entry (as
\* canonical prefix or earlier alias, with any deprecated flag) succeeds and
\* leaves the whole schema unchanged.
C9_ExistingAliasNoOp ==
    [][(/\ last'.op \in AliasOps
        /\ GetLL(schema, last'.prefix, last'.metadata) # <<>>
        /\ last'.alias \in PathsOf(schema, <<last'.prefix, last'.metadata>>))
        => (last'.ok /\ schema' = schema)]_vars

\* push_deprecated_alias of an alias stored as not deprecated returned Ok and
\* the stored flag is still not deprecated.
C9_Witness ==
    /\ last.op = "push_deprecated_alias" /\ last.ok /\ last.staged = 0
    /\ \E i \in 2..Len(Entry(schema, <<last.prefix, last.metadata>>).all_paths) :
          Entry(schema, <<last.prefix, last.metadata>>).all_paths[i] =
              PathEntry(last.alias, FALSE)

----------------------------------------------------------------------------
(* The config tree of a call, from the metadata graph *)

\* The root config data of insert(metadata, prefix) on schema s.
InsertRoot(s, metadata, prefix) ==
    ConfigData(metadata, NoLink, TRUE, s.coerce_serde_enums,
               <<PathEntry(prefix, AliasOptionsNew)>>)

\* The config at `prefix` with its nested / flattened configs, recursively.
\* With `skip`, a config already registered in `base` is left out together
\* with its nested configs.
RECURSIVE Tree(_, _, _, _)
Tree(base, prefix, data, skip) ==
    IF skip /\ GetLL(base, prefix, data.metadata) # <<>> THEN {}
    ELSE {[prefix |-> prefix, data |-> data]} \cup
         UNION {Tree(base, c.prefix, c.data, skip) :
                   c \in Range(ListNestedConfigs(prefix, data))}

TreeConfigPaths(items) ==
    UNION {{it.prefix} \cup {it.data.all_paths[i].path : i \in 1..Len(it.data.all_paths)} :
              it \in items}

TreeParams(items) ==
    UNION {{[path |-> pi.full_name, expecting |-> pi.expecting] :
               pi \in Range(ParamItems(it.data))} : it \in items}

\* The tree of the call recorded in `call`, made on schema s.
CallTree(s, call, skip) ==
    IF call.op = "insert"
    THEN Tree(s, call.prefix, InsertRoot(s, call.metadata, call.prefix), skip)
    ELSE IF /\ call.op \in AliasOps
            /\ GetLL(s, call.prefix, call.metadata) # <<>>
            /\ call.alias \notin PathsOf(s, <<call.prefix, call.metadata>>)
    THEN Tree(s, call.prefix,
              AliasData(Entry(s, <<call.prefix, call.metadata>>), call.alias, call.options),
              FALSE)
    ELSE {}

\* A config path of the tree is mounted as a param or a param path as a
\* config, in the base schema or within the tree itself.
ConfigParamCollision(s, items) ==
    \/ \E path \in TreeConfigPaths(items) : IsParamMount(s, path)
    \/ \E pm \in TreeParams(items) : IsConfigMount(s, pm.path)
    \/ \E pm \in TreeParams(items) : pm.path \in TreeConfigPaths(items)

\* A param of the tree meets, in the base schema, a param whose expected
\* types are disjoint from its own.
MeetsDisjoint(s, items) ==
    \E pm \in TreeParams(items) :
        IsParamMount(s, pm.path) /\ s.mounting_points[pm.path].expecting \cap pm.expecting = {}

\* Every param of the tree that meets a param, in the base schema or in the
\* tree, has the same expected types.
MeetsOnlyEqual(s, items) ==
    /\ \A pm \in TreeParams(items) :
          IsParamMount(s, pm.path) => s.mounting_points[pm.path].expecting = pm.expecting
    /\ \A pm1, pm2 \in TreeParams(items) :
          pm1.path = pm2.path => pm1.expecting = pm2.expecting

----------------------------------------------------------------------------
(* C3 *)

\* C3: insert / push_alias fails if any path of the config or of any of its
\* nested / flattened configs is mounted as a parameter, or any generated
\* parameter path is mounted as a config, in the committed schema or among
\* the mounts of the same call.
C3_CollisionsRejected ==
    [][(last'.op \in MutatingOps /\ ConfigParamCollision(schema, CallTree(schema, last', FALSE)))
        => ~last'.ok]_vars

----------------------------------------------------------------------------
(* C4 *)

\* C4: inserting a parameter at a path that holds a parameter with a disjoint
\* expected-type set fails with the schema unchanged; an insert whose
\* parameters meet only parameters with equal type sets (and no config)
\* succeeds; and a mounting point flagged canonical before an insert is still
\* flagged canonical after it.  The parameters an insert inserts are those of
\* the configs it registers: the new config and its nested configs that are
\* not registered yet.
C4_ParamTypeSets ==
    [][last'.op = "insert" =>
        /\ MeetsDisjoint(schema, CallTree(schema, last', TRUE))
              => (~last'.ok /\ schema' = schema)
        /\ (/\ ~ConfigParamCollision(schema, CallTree(schema, last', TRUE))
            /\ MeetsOnlyEqual(schema, CallTree(schema, last', TRUE)))
              => last'.ok
        /\ \A path \in DOMAIN schema.mounting_points :
              (IsParamMount(schema, path) /\ schema.mounting_points[path].is_canonical)
                 => (IsParamMount(schema', path) /\ schema'.mounting_points[path].is_canonical)]_vars

\* An insert just succeeded that mounted a parameter alias (not canonical for
\* the new config) on a path that another config's parameter holds as
\* canonical, with equal types.
C4_Witness ==
    /\ last.op = "insert" /\ last.ok /\ last.metadata = "Ali"
    /\ GetLL(schema, last.prefix, "Leaf") # <<>>
    /\ IsParamMount(schema, Join(last.prefix, <<"x">>))
    /\ schema.mounting_points[Join(last.prefix, <<"x">>)].is_canonical

----------------------------------------------------------------------------
(* C8 *)

\* Across a successful call no entry disappears and every previous path list
\* is a prefix of the new one.
AppendOnly(s, t) ==
    \A key \in Registered(s) :
        /\ key \in Registered(t)
        /\ IsPrefixOf(Entry(s, key).all_paths, Entry(t, key).all_paths)

\* The aliases after insert, push_alias(a), push_deprecated_alias(b).
AliasesInCallOrder(s, tr) ==
    /\ Prefix(Entry(s, tr.key)) = tr.key[1]
    /\ Aliases(Entry(s, tr.key)) = <<PathEntry(tr.a, FALSE), PathEntry(tr.b, TRUE)>>

\* C8 as claimed: path lists are append-only across successful calls, and
\* push_alias(a) then push_deprecated_alias(b) with a # b on a freshly
\* inserted config yields aliases() = [a, b (deprecated)].
C8_AppendOnlyAsClaimed ==
    [][/\ (last'.op \in MutatingOps /\ last'.ok) => AppendOnly(schema, schema')
       /\ (track'.stage = 3 /\ track'.a # track'.b) => AliasesInCallOrder(schema', track')]_vars

\* C8 (amended): the same, for aliases a # b that both differ from the
\* canonical prefix of the config.
C8_AppendOnly ==
    [][/\ (last'.op \in MutatingOps /\ last'.ok) => AppendOnly(schema, schema')
       /\ (/\ track'.stage = 3 /\ track'.a # track'.b
           /\ track'.a # track'.key[1] /\ track'.b # track'.key[1])
             => AliasesInCallOrder(schema', track')]_vars

\* push_alias(a) and push_deprecated_alias(b) have followed the insert of a new
\* config, a and b differing from each other and from the prefix.
C8_Witness ==
    /\ track.stage = 3 /\ track.a # track.b
    /\ track.a # track.key[1] /\ track.b # track.key[1]

----------------------------------------------------------------------------
(* C10 *)

\* The paths generated under P for a param `name` with simple alias `alias`.
Natural(P, name, alias) == <<P \o <<name>>, P \o <<alias>>>>

Tagged(P, tag, name, alias) == <<P \o <<tag, name>>, P \o <<tag, alias>>>>

PathsOnly(entries) == [i \in 1..Len(entries) |-> entries[i].path]

\* C10: with coercion enabled, param baz (alias qux, tag variant Foo with alias
\* Bar) generates for every config path P exactly P.baz, P.qux, P.foo.baz,
\* P.foo.qux, P.bar.baz, P.bar.qux in this order; a path alias (.rel) gets no
\* tag-prefixed variant; with coercion disabled or without a tag variant only
\* the natural paths are generated.
C10_EnumCoercionPaths ==
    \A key \in Registered(schema) :
        key[2] = "Enum" =>
            LET data == Entry(schema, key)
                n == Len(data.all_paths)
                P(i) == data.all_paths[i].path
                on == data.coerce_serde_enums
            IN /\ PathsOnly(AllPathsForParam(data, Meta.Enum.params[1])) =
                     Concat([i \in 1..n |->
                        Natural(P(i), "baz", "qux") \o
                        (IF on THEN Tagged(P(i), "foo", "baz", "qux") \o
                                    Tagged(P(i), "bar", "baz", "qux")
                         ELSE <<>>)])
               /\ PathsOnly(AllPathsForParam(data, Meta.Enum.params[2])) =
                     Concat([i \in 1..n |->
                        Natural(P(i), "opt", "rel") \o
                        (IF on THEN <<P(i) \o <<"foo", "opt">>>> ELSE <<>>)])
               /\ PathsOnly(AllPathsForParam(data, Meta.Enum.params[3])) =
                     [i \in 1..n |-> P(i) \o <<"raw">>]

\* An Enum config with an alias is registered with coercion enabled.
C10_Witness ==
    \E key \in Registered(schema) :
        /\ key[2] = "Enum"
        /\ Entry(schema, key).coerce_serde_enums
        /\ Len(Entry(schema, key).all_paths) >= 2

----------------------------------------------------------------------------
(* C11 *)

\* The push of a new alias recorded in `call` is about to act on schema s.
PushesNewAlias(s, call) ==
    /\ call.op \in AliasOps
    /\ GetLL(s, call.prefix, call.metadata) # <<>>
    /\ call.alias \notin PathsOf(s, <<call.prefix, call.metadata>>)

\* The parameter paths a config generates under the single path `alias` when
\* its coercion flag is `coerce`.
AliasParamPaths(data, alias, coerce) ==
    {it.full_name :
        it \in Range(ParamItems([data EXCEPT !.coerce_serde_enums = coerce,
                                             !.all_paths = <<PathEntry(alias, FALSE)>>]))}

\* C11: a config registered by an insert carries the toggle value of the
\* schema at that call; coerce_serde_enums(b) changes no registered entry and
\* no mounting point; the flag stored in a registered entry never changes
\* afterwards; and a push_alias on a config mounts, for that config's
\* parameters, the paths generated with its stored flag and none that only
\* the schema's current toggle would generate.
C11_CoercionCaptured ==
    [][/\ (last'.op = "insert" /\ last'.ok) =>
             \A key \in Registered(schema') \ Registered(schema) :
                 Entry(schema', key).coerce_serde_enums = schema.coerce_serde_enums
       /\ last'.op = "coerce_serde_enums" =>
             /\ schema'.configs = schema.configs
             /\ schema'.mounting_points = schema.mounting_points
       /\ \A key \in Registered(schema) \cap Registered(schema') :
             Entry(schema', key).coerce_serde_enums = Entry(schema, key).coerce_serde_enums
       /\ (PushesNewAlias(schema, last') /\ last'.ok) =>
             LET data == Entry(schema, <<last'.prefix, last'.metadata>>)
                 stored == AliasParamPaths(data, last'.alias, data.coerce_serde_enums)
                 other == AliasParamPaths(data, last'.alias, ~data.coerce_serde_enums)
             IN /\ \A path \in stored : IsParamMount(schema', path)
                /\ \A path \in other \ stored :
                      path \in DOMAIN schema'.mounting_points
                         => path \in DOMAIN schema.mounting_points]_vars

----------------------------------------------------------------------------
(* C12 *)

\* The local names of a child: its name, its aliases and, with coercion, the
\* tag-prefixed names.
LocalNames(data, child) ==
    <<LocalAlias(NameOf(child.name), FALSE)>> \o child.aliases \o
    (IF data.coerce_serde_enums /\ child.tag_variant # NoVariant
     THEN EnumNames(<<LocalAlias(NameOf(child.name), FALSE)>> \o child.aliases,
                    child.tag_variant[1])
     ELSE <<>>)

\* The children (parameters and nested configs) of a config type.
Children(ty) ==
    Range(Meta[ty].params) \cup
    {[name |-> n.name, aliases |-> n.aliases, tag_variant |-> n.tag_variant] :
        n \in Range(Meta[ty].nested_configs)}

\* The k-th cell of the grid (paths of the config) x (local names), rows
\* first: its path index q and local-name index l.
GridCell(k, m) == [q |-> ((k - 1) \div m) + 1, l |-> ((k - 1) % m) + 1]

\* The expected generated paths: the cells of the grid in row order whose
\* join is defined, each deprecated iff its path entry or its local name is.
GridPaths(data, names) ==
    LET n == Len(data.all_paths)
        m == Len(names)
        Joined(c) == JoinPath(data.all_paths[c.q].path, names[c.l].name)
        Defined(c) == Joined(c) # <<>>
        cells == SelectSeq([k \in 1..(n * m) |-> GridCell(k, m)], Defined)
    IN [k \in 1..Len(cells) |->
          PathEntry(Joined(cells[k])[1],
                    data.all_paths[cells[k].q].is_deprecated
                       \/ names[cells[k].l].is_deprecated)]

\* C12: for every registered config with path list [q1..qn] and every child
\* with local names [name, alias1..aliasm], the generated absolute paths are
\* q1.name, q1.alias1, ..., q2.name, ... (path of the config outer, local name
\* inner), and a generated path is deprecated iff the path entry of the
\* config or the local alias is deprecated.
C12_PathOrderAndFlags ==
    \A key \in Registered(schema) :
        \A child \in Children(key[2]) :
            AllPathsForChild(Entry(schema, key), child.name, child.aliases, child.tag_variant)
                = GridPaths(Entry(schema, key), LocalNames(Entry(schema, key), child))

\* A config is registered with its canonical prefix and a deprecated alias,
\* whose children have a plain name and a deprecated local alias: all four
\* combinations of flags are generated, and one join (of "..up" with the
\* empty prefix) is undefined.
C12_Witness ==
    \E key \in Registered(schema) :
        /\ key[2] = "Par" /\ key[1] = <<>>
        /\ Len(Entry(schema, key).all_paths) = 2
        /\ Entry(schema, key).all_paths[2].is_deprecated
        /\ Len(AllPathsForParam(Entry(schema, key), Meta.Par.params[1])) = 3

----------------------------------------------------------------------------
(* C13 *)

\* C13: the refs returned by iter() are pairwise distinct in (config type,
\* prefix), and their set is the set of registered (prefix, type) entries.
C13_IterExactlyOnce ==
    \A ord \in TypeIdOrders :
        LET refs == Iter(schema, ord)
        IN /\ \A i, j \in 1..Len(refs) : i # j => KeyOf(refs[i]) # KeyOf(refs[j])
           /\ {KeyOf(refs[i]) : i \in 1..Len(refs)} = Registered(schema)

----------------------------------------------------------------------------
(* C14 *)

\* C14: every config with a parent link is yielded by iter() after the
\* config its parent link refers to, for nested children (longer prefix) and
\* for flattened children (same prefix, ordered by depth).
C14_IterTopological ==
    \A ord \in TypeIdOrders :
        LET refs == Iter(schema, ord)
        IN \A i \in 1..Len(refs) :
              refs[i].data.parent_link # NoLink =>
                 \E j \in 1..(i - 1) : <<KeyOf(refs[j])>> = ParentLinkOf(schema, refs[i])

----------------------------------------------------------------------------
(* C15 *)

\* Mutant of Locate: the alias paths of the config count as locations too.
LocateWithAliases(s, ty) ==
    LET prefixes == SortedPrefixes(DOMAIN s.configs)
    IN Concat([p \in 1..Len(prefixes) |->
          IF ty \in DOMAIN s.configs[prefixes[p]].inner
          THEN PathsOnly(s.configs[prefixes[p]].inner[ty].all_paths)
          ELSE <<>>])

\* ConfigSchema::locate: the prefixes under which the type is registered, in
\* key order.
Locate(s, ty) ==
    LET prefixes == SortedPrefixes(DOMAIN s.configs)
    IN Concat([p \in 1..Len(prefixes) |->
          IF ty \in DOMAIN s.configs[prefixes[p]].inner
          THEN <<prefixes[p]>>
          ELSE <<>>])

\* Iterator::take(2)
Take2(seq) == SubSeq(seq, 1, IF Len(seq) < 2 THEN Len(seq) ELSE 2)

\* ConfigSchema::single: Ok(ConfigRef) or an error.
Single(s, ty) ==
    LET prefixes == Take2(Locate(s, ty))
    IN CASE Len(prefixes) = 0 -> [ok |-> FALSE, err |-> "NotRegistered", ref |-> <<>>]
         [] Len(prefixes) = 1 ->
               [ok |-> TRUE, err |-> "",
                ref |-> <<ConfigRef(prefixes[1], s.configs[prefixes[1]].inner[ty])>>]
         [] Len(prefixes) = 2 -> [ok |-> FALSE, err |-> "RegisteredTwice", ref |-> <<>>]

ConfigMut(prefix, type_id) == [prefix |-> prefix, type_id |-> type_id]

\* ConfigSchema::single_mut: Ok(ConfigMut) or an error.
SingleMut(s, ty) ==
    LET it == Locate(s, ty)
    IN IF it = <<>> THEN [ok |-> FALSE, err |-> "NotRegistered", ref |-> <<>>]
       ELSE IF Tail(it) # <<>> THEN [ok |-> FALSE, err |-> "RegisteredTwice", ref |-> <<>>]
       ELSE [ok |-> TRUE, err |-> "", ref |-> <<ConfigMut(Head(it), ty)>>]

\* The canonical prefixes under which a type is registered.
PrefixesOf(s, ty) == {key[1] : key \in {k \in Registered(s) : k[2] = ty}}

\* C15: single and single_mut succeed iff the type is registered at exactly
\* one canonical prefix (alias paths are not locations) and then refer to
\* that entry; with zero or with two or more prefixes they return the
\* matching error.
C15_SingleIffOnePrefix ==
    \A ty \in Types :
        LET n == Cardinality(PrefixesOf(schema, ty))
            one == Single(schema, ty)
            mut == SingleMut(schema, ty)
        IN /\ one.ok <=> n = 1
           /\ mut.ok <=> n = 1
           /\ n = 0 => (one.err = "NotRegistered" /\ mut.err = "NotRegistered")
           /\ n >= 2 => (one.err = "RegisteredTwice" /\ mut.err = "RegisteredTwice")
           /\ n = 1 =>
                 /\ one.ref[1].prefix \in PrefixesOf(schema, ty)
                 /\ one.ref[1].data = Entry(schema, <<one.ref[1].prefix, ty>>)
                 /\ mut.ref[1].prefix = one.ref[1].prefix
                 /\ mut.ref[1].type_id = ty

\* One type is registered at a single prefix and has an alias, another type
\* is registered at two prefixes, and a third one is not registered.
C15_Witness ==
    /\ \E ty \in Types :
          /\ Single(schema, ty).ok
          /\ Len(Single(schema, ty).ref[1].data.all_paths) >= 2
    /\ \E ty \in Types : Cardinality(PrefixesOf(schema, ty)) = 2
    /\ \E ty \in Types : PrefixesOf(schema, ty) = {}

----------------------------------------------------------------------------
(* C16 *)

\* C16: collecting an iterator of errors into Result<(), ParseErrors> gives
\* Ok(()) for an empty iterator and, for N > 0 errors, Err(e) with
\* e.len() = N, e.iter() the errors in encounter order (duplicates kept) and
\* e.first() the first error encountered.
C16_CollectKeepsOrder ==
    errs.op = "collect" =>
        /\ errs.input = <<>> => (errs.ok /\ errs.value = <<>>)
        /\ errs.input # <<>> =>
              /\ ~errs.ok /\ errs.value # <<>>
              /\ LenErrors(errs.value[1]) = Len(errs.input)
              /\ IterErrors(errs.value[1]) = errs.input
              /\ First(errs.value[1]) = [panic |-> FALSE, err |-> <<errs.input[1]>>]

\* Three errors have been collected, the third equal to the first and the
\* second different.
C16_Witness ==
    /\ errs.op = "collect" /\ Len(errs.input) = 3
    /\ errs.input[1] = errs.input[3] /\ errs.input[1] # errs.input[2]
    /\ errs.value # <<>>

----------------------------------------------------------------------------
(* C17 *)

\* C17: a ParseErrors value, however created or changed (default, push,
\* truncate, collect), holds at least one error, so first() does not panic.
C17_NeverEmpty ==
    errs.value # <<>> =>
        /\ LenErrors(errs.value[1]) >= 1
        /\ ~First(errs.value[1]).panic

----------------------------------------------------------------------------
(* C20 *)

\* C20: the rendered message is
\*     error <action> <field>`<config>` at `<path>`<origin>: <cause>
\* where <action> is "validating '<description>' for" exactly when a
\* validation description is set and "parsing" otherwise, <field> is
\* "param `<name>` in " exactly when the error carries a parameter index
\* valid for the config's parameters, and " [origin: ...]" is present exactly
\* when the origin is not unknown.
C20_DisplayComposition ==
    errs.shown # <<>> =>
        LET e == errs.shown[1]
            params == Meta[e.config].params
            validating == e.validation # <<>>
            indexed == e.location_in_config # <<>> /\
                       e.location_in_config[1] \in 0..(Len(params) - 1)
            known == e.origin # "Unknown"
            action == IF validating
                      THEN <<"validating", " ", "'", e.validation[1], "'", " ", "for">>
                      ELSE <<"parsing">>
            field == IF indexed
                     THEN <<"param", " ", Backtick, params[e.location_in_config[1] + 1].name, Backtick,
                            " ", "in", " ">>
                     ELSE <<>>
            origin == IF known THEN <<" ", "[", "origin", ":", " ", e.origin, "]">>
                      ELSE <<>>
        IN errs.text =
              <<"error", " ">> \o action \o <<" ">> \o field \o
              <<Backtick, e.config, Backtick, " ", "at", " ", Backtick, e.path, Backtick>> \o origin \o
              <<":", " ", e.inner>>

\* An error with a validation description, a parameter index that is not
\* valid for its config and a known origin has been rendered.
C20_Witness ==
    /\ errs.shown # <<>>
    /\ errs.shown[1].validation # <<>>
    /\ errs.shown[1].location_in_config = <<1>>
    /\ errs.shown[1].origin = "EnvVars"
    /\ errs.text # <<>>

----------------------------------------------------------------------------
(* C18 *)

\* The (registered config, parameter index) pairs whose fallback source
\* yields a value under `env`.
Provided(s, env) ==
    {<<key, i>> \in Registered(s) \X (1..2) :
        /\ i <= Len(Meta[key[2]].params)
        /\ Meta[key[2]].params[i].fallback # <<>>
        /\ ProvideValue(env, Meta[key[2]].params[i].fallback[1]) # <<>>}

\* The overlay entry the claim describes for the parameter `i` of `key`.
ClaimedEntry(env, key, i) ==
    LET param == Meta[key[2]].params[i]
        val == ProvideValue(env, param.fallback[1])[1]
    IN WithOrigin(val.value,
                  [kind |-> "Synthetic", source |-> val.origin,
                   transform |-> <<"fallback for ", Backtick, key[2], ".",
                                   param.rust_field_name, Backtick>>])

\* C18: Fallbacks::new returns None iff no parameter of a registered config
\* yields a fallback value; otherwise the overlay holds, for each registered
\* (prefix, config) and each parameter whose source returned a value, an
\* entry keyed by (prefix, parameter name) with that value and the origin
\* wrapped as "fallback for `<Type>.<field>`", and no other keys (so no alias
\* path is a key).
C18_OverlayEntries ==
    fb.computed =>
        /\ fb.overlay = <<>> <=> Provided(schema, fb.env) = {}
        /\ fb.overlay # <<>> =>
              /\ \A pr \in Provided(schema, fb.env) :
                    LET k == <<pr[1][1], Meta[pr[1][2]].params[pr[2]].name>>
                    IN /\ k \in DOMAIN fb.overlay[1].inner
                       /\ fb.overlay[1].inner[k] = ClaimedEntry(fb.env, pr[1], pr[2])
              /\ DOMAIN fb.overlay[1].inner =
                    {<<pr[1][1], Meta[pr[1][2]].params[pr[2]].name>> :
                        pr \in Provided(schema, fb.env)}

----------------------------------------------------------------------------
(* C19 *)

\* The values a config source supplies: a value at some of these paths.
SuppliedPaths == {<<"a", "x">>, <<"a", "z">>, <<"q", "x">>}

\* A value read from a config file.
SuppliedValue == WithOrigin(<<"supplied">>, [kind |-> "File"])

Supplies ==
    UNION {[paths -> {SuppliedValue}] : paths \in SUBSET SuppliedPaths}

\* C19: for every parameter with a fallback value and every set of supplied
\* values, if a value is supplied for any path of the parameter (canonical or
\* alias) the resolved value is a supplied one, that of the first such path,
\* and the fallback value is the resolved one only if no path is supplied.
C19_FallbackLowestPriority ==
    (fb.computed /\ fb.overlay # <<>>) =>
        \A pr \in Provided(schema, fb.env), supplied \in Supplies :
            LET param == Meta[pr[1][2]].params[pr[2]]
                paths == AllPathsForParam(Entry(schema, pr[1]), param)
                with_value == {i \in 1..Len(paths) : paths[i].path \in DOMAIN supplied}
                resolved == Resolve(schema, fb.overlay, supplied, pr[1], param)
            IN /\ with_value # {} =>
                     /\ resolved = <<SuppliedValue>>
                     /\ \E i \in with_value :
                           /\ \A j \in with_value : i <= j
                           /\ resolved = <<supplied[paths[i].path]>>
               /\ with_value = {} =>
                     resolved = <<fb.overlay[1].inner[<<pr[1][1], param.name>>]>>

\* An overlay has been computed for a schema in which FbA (parameter x with
\* alias z and a fallback value) is registered at a with the config alias q.
C19_Witness ==
    /\ fb.computed /\ fb.overlay # <<>>
    /\ <<<<"a">>, "FbA">> \in Registered(schema)
    /\ <<<<<<"a">>, "FbA">>, 1>> \in Provided(schema, fb.env)
    /\ Len(Entry(schema, <<<<"a">>, "FbA">>).all_paths) = 2

----------------------------------------------------------------------------
(* C21 *)

\* `pieces` occurs in `text` as a run of consecutive pieces.
Contains(text, pieces) ==
    \E i \in 0..(Len(text) - Len(pieces)) :
        SubSeq(text, i + 1, i + Len(pieces)) = pieces

\* The rendered error is the missing-required-field error on parameter port
\* of ServerConfig at server.port.
MissingPortShown ==
    /\ errs.op = "display"
    /\ errs.shown # <<>>
    /\ errs.shown[1].category = "MissingField"
    /\ errs.shown[1].config = "ServerConfig"
    /\ errs.shown[1].location_in_config = <<0>>
    /\ errs.shown[1].path = "server.port"

----------------------------------------------------------------------------
(* C22 *)

\* Every nested config of the config registered at (prefix, ty), recursively,
\* is registered and has in its path list every path generated from a path of
\* its parent's entry and its name or one of its aliases.
RECURSIVE NestedComplete(_, _, _)
NestedComplete(s, prefix, ty) ==
    /\ GetLL(s, prefix, ty) # <<>>
    /\ \A c \in Range(ListNestedConfigs(prefix, Entry(s, <<prefix, ty>>))) :
          /\ GetLL(s, c.prefix, c.data.metadata) # <<>>
          /\ \A i \in 1..Len(c.data.all_paths) :
                c.data.all_paths[i].path \in PathsOf(s, <<c.prefix, c.data.metadata>>)
          /\ NestedComplete(s, c.prefix, c.data.metadata)

\* C22: after a successful insert(metadata, P), every nested config of
\* metadata (recursively) is registered with, in its path list, every
\* combination of a path of its parent's entry with its name or one of its
\* aliases, also when it was registered at that prefix before the insert.
C22_NestedAliasesComplete ==
    [][(last'.op = "insert" /\ last'.ok)
        => NestedComplete(schema', last'.prefix, last'.metadata)]_vars

----------------------------------------------------------------------------
(* C23 *)

\* The keys iter() yields on schema s under the order `ord` of the type ids.
IterKeys(s, ord) == {KeyOf(ref) : ref \in Range(Iter(s, ord))}

----------------------------------------------------------------------------
(* C24 *)

\* The canonical locations of the parameters: the canonical prefix of a
\* registered config joined with the name of one of its parameters.
CanonicalLocations(s) ==
    UNION {{Join(key[1], NameOf(Meta[key[2]].params[p].name).segs) :
               p \in 1..Len(Meta[key[2]].params)} : key \in Registered(s)}

\* C24: contains_canonical_param(path) is true only if path is the canonical
\* prefix of a registered config joined with the name of one of its
\* parameters.
C24_CanonicalOnlyAtCanonical ==
    \A path \in DOMAIN schema.mounting_points :
        ContainsCanonicalParam(schema, path) => path \in CanonicalLocations(schema)

----------------------------------------------------------------------------
(* C25 *)

\* The (prefix, type) keys insert_recursively applies insert_inner to, in the
\* order of the calls, when no call fails.
RECURSIVE WorklistVisits(_, _, _)
WorklistVisits(base, pending, is_new) ==
    IF pending = <<>> THEN <<>>
    ELSE LET item == pending[Len(pending)]
             rest == SubSeq(pending, 1, Len(pending) - 1)
         IN IF AlreadyPresent(base, is_new, item.prefix, item.data.metadata)
            THEN WorklistVisits(base, rest, is_new)
            ELSE <<<<item.prefix, item.data.metadata>>>> \o
                 WorklistVisits(base, rest \o NewConfigs(item), is_new)

\* The insert_inner applications of the call recorded in `call`, made on
\* schema s.
CallVisits(s, call) ==
    IF call.op = "insert"
    THEN WorklistVisits(s, <<[prefix |-> call.prefix,
                              data |-> InsertRoot(s, call.metadata, call.prefix),
                              depth |-> <<0>>]>>, TRUE)
    ELSE IF /\ call.op \in AliasOps
            /\ GetLL(s, call.prefix, call.metadata) # <<>>
            /\ ~AliasExists(Entry(s, <<call.prefix, call.metadata>>), call.alias)
    THEN WorklistVisits(s, <<[prefix |-> call.prefix,
                              data |-> AliasData(Entry(s, <<call.prefix, call.metadata>>),
                                                 call.alias, call.options),
                              depth |-> <<>>]>>, FALSE)
    ELSE <<>>

\* C25: within one successful insert or push_alias call, insert_inner is
\* applied at most once for each (prefix, config type).
C25_StagedOnce ==
    [][(last'.op \in MutatingOps /\ last'.ok) =>
        \A i, j \in 1..Len(CallVisits(schema, last')) :
            CallVisits(schema, last')[i] = CallVisits(schema, last')[j] => i = j]_vars

----------------------------------------------------------------------------
(* C26 *)

\* C26: after a successful insert(metadata, prefix), get(metadata, prefix)
\* returns an entry whose prefix() is prefix and whose is_top_level() is true.
C26_InsertedIsTopLevel ==
    [][(last'.op = "insert" /\ last'.ok) =>
        /\ Get(schema', last'.metadata, last'.prefix) # <<>>
        /\ RefPrefix(Get(schema', last'.metadata, last'.prefix)[1]) = last'.prefix
        /\ IsTopLevel(Get(schema', last'.metadata, last'.prefix)[1])]_vars

----------------------------------------------------------------------------
(* C27 *)

\* C27: ConfigSchema::new(metadata, prefix) never panics: the insert of the
\* first config into the default schema succeeds, for every metadata.
C27_NewNeverPanics ==
    [][(last'.op = "insert" /\ schema = SchemaDefault) =>
        /\ ~New(last'.metadata, last'.prefix).panic
        /\ last'.ok
        /\ schema' = New(last'.metadata, last'.prefix).schema]_vars

----------------------------------------------------------------------------
(* C28 *)

\* The nested-config descriptor a parent link refers to.
ThisRef(link) == Meta[link.parent_ty].nested_configs[link.this_ref]

\* C28: a registered config has its is_top_level flag set if and only if it
\* has no parent link; and for a config with a parent link, parent_link()
\* does not panic and returns the registered config of the recorded parent
\* type, at the same prefix if the nested descriptor is flattened and at the
\* prefix without its last segment otherwise.
C28_ParentLinksResolve ==
    \A key \in Registered(schema) :
        LET data == Entry(schema, key)
        IN /\ data.is_top_level <=> data.parent_link = NoLink
           /\ data.parent_link # NoLink =>
                 /\ ThisRef(data.parent_link[1]).name # "" => SplitLast(key[1]) # <<>>
                 /\ ParentLinkOf(schema, ConfigRef(key[1], data)) =
                       << <<IF ThisRef(data.parent_link[1]).name = "" THEN key[1]
                            ELSE SubSeq(key[1], 1, Len(key[1]) - 1),
                            data.parent_link[1].parent_ty>> >>
                 /\ ThisRef(data.parent_link[1]).meta = key[2]

\* Leaf at d has a parent link to Par, registered at the root, right after a
\* push_alias on Par re-staged it.
C28_Witness ==
    /\ last.op = "push_alias" /\ last.ok /\ last.metadata = "Par"
    /\ GetLL(schema, <<"d">>, "Leaf") # <<>>
    /\ Entry(schema, <<<<"d">>, "Leaf">>).parent_link = ParentLink("Par", 1)
    /\ ~Entry(schema, <<<<"d">>, "Leaf">>).is_top_level
    /\ ParentLinkOf(schema, ConfigRef(<<"d">>, Entry(schema, <<<<"d">>, "Leaf">>))) =
          << <<<<>>, "Par">> >>

----------------------------------------------------------------------------
(* C29 *)

\* C29: the path list of every registered config (canonical prefix followed
\* by the aliases) contains no path twice.
C29_NoDuplicatePaths ==
    \A key \in Registered(schema) :
        \A i, j \in 1..Len(Entry(schema, key).all_paths) :
            Entry(schema, key).all_paths[i].path = Entry(schema, key).all_paths[j].path
               => i = j

----------------------------------------------------------------------------
(* C30 *)

\* The provide_value calls of Fallbacks::new, in order: one (prefix, type,
\* parameter index) for each parameter with a fallback source of each config
\* iter_ll yields.
ProvideCalls(s, ord) ==
    LET configs == IterLL(s, ord)
    IN Concat([c \in 1..Len(configs) |->
          Concat([i \in 1..Len(Meta[configs[c].data.metadata].params) |->
             IF Meta[configs[c].data.metadata].params[i].fallback = <<>> THEN <<>>
             ELSE << <<configs[c].prefix, configs[c].data.metadata, i>> >>])])

\* The number of entries of an overlay (0 for None).
OverlayLen(overlay) ==
    IF overlay = <<>> THEN 0 ELSE Cardinality(DOMAIN overlay[1].inner)

\* C30: Fallbacks::new invokes the fallback source of each parameter once for
\* each registered (prefix, config type) that contains it, the number of
\* overlay entries equals the number of (registered entry, parameter) pairs
\* whose source returned a value, and the overlay is the same whatever the
\* iteration order of the registry's hash maps.
C30_OverlayCompleteDeterministic ==
    fb.computed =>
        /\ \A ord \in TypeIdOrders :
              /\ \A i, j \in 1..Len(ProvideCalls(schema, ord)) :
                    ProvideCalls(schema, ord)[i] = ProvideCalls(schema, ord)[j] => i = j
              /\ Range(ProvideCalls(schema, ord)) =
                    {<<key[1], key[2], i>> : key \in Registered(schema), i \in 1..2} \cap
                    {c \in (DOMAIN schema.configs) \X Types \X (1..2) :
                        /\ c[3] <= Len(Meta[c[2]].params)
                        /\ Meta[c[2]].params[c[3]].fallback # <<>>}
        /\ OverlayLen(fb.overlay) = Cardinality(Provided(schema, fb.env))
        /\ \A ord \in TypeIdOrders : FallbacksNew(schema, fb.env, ord) = fb.overlay

----------------------------------------------------------------------------
(* C31 *)

\* C31: every registered entry has a non-empty path list whose first element
\* is the prefix key it is stored under (so ConfigData::prefix does not
\* panic), get(metadata, q) returns an entry whose canonical prefix is q, and
\* locate(metadata) yields exactly the canonical prefixes of the entries of
\* the type, never a path that is only an alias.
C31_KeysAreCanonicalPrefixes ==
    /\ \A key \in Registered(schema) :
          /\ Len(Entry(schema, key).all_paths) >= 1
          /\ Prefix(Entry(schema, key)) = key[1]
          /\ Entry(schema, key).metadata = key[2]
          /\ Get(schema, key[2], key[1]) # <<>>
          /\ RefPrefix(Get(schema, key[2], key[1])[1]) = key[1]
          /\ Prefix(Get(schema, key[2], key[1])[1].data) = key[1]
    /\ \A ty \in Types :
          Range(Locate(schema, ty)) =
             {Prefix(Entry(schema, key)) : key \in {k \in Registered(schema) : k[2] = ty}}

\* Leaf is registered at d as the nested config of Par, with the aliases e
\* (from the nested descriptor) and q.d (from an alias q of Par): locate(Leaf)
\* yields d only, and get(Leaf, d) has the canonical prefix d.
C31_Witness ==
    /\ GetLL(schema, <<>>, "Par") # <<>>
    /\ Get(schema, "Leaf", <<"d">>) # <<>>
    /\ Prefix(Get(schema, "Leaf", <<"d">>)[1].data) = <<"d">>
    /\ {<<"e">>, <<"q", "d">>} \subseteq PathsOf(schema, <<<<"d">>, "Leaf">>)
    /\ Locate(schema, "Leaf") = << <<"d">> >>

====
